---- MODULE Spec2Model ----
(***************************************************************************)
(* Model of go_project_context_maker: the generator package (collectFiles, *)
(* renderTree, Generate) and the init command of main.go.                  *)
(*                                                                         *)
(* A Go string is a sequence of runes, each rune written as a one-rune     *)
(* TLA+ string: the path "s/a.g" is <<"s", "/", "a", ".", "g">>.  The      *)
(* box-drawing runes of the tree are written "U2502" (vertical bar),       *)
(* "U251C" (tee), "U2514" (corner) and "U2500" (dash), the backquote is   *)
(* written "U0060".  A constant piece of a format string is kept as one    *)
(* element.                                                                *)
(***************************************************************************)
EXTENDS Integers, Sequences, FiniteSets, TLC

VARIABLES
    fs,         \* the filesystem: absolute path -> entry, for the paths that exist
    mode,       \* which program runs: "tree", "collect", "generate" or "init"
    pc,         \* position of the running operation
    treePaths,  \* renderTree: the paths argument
    treeIdx,    \* renderTree: number of paths inserted so far
    troot,      \* renderTree: the node graph under root, node key -> tnode
    treeOut,    \* renderTree: the returned string
    cDirs,      \* collectFiles: the dirs argument
    cPattern,   \* collectFiles: the patternCSV argument
    starts,     \* collectFiles: the expanded start points
    startIdx,   \* collectFiles: number of start points visited so far
    seen,       \* collectFiles: the key set of the seen map
    cOut,       \* collectFiles: the returned list
    cErr,       \* collectFiles: the returned error
    gDocs,      \* Generate: c.Documents
    docIdx,     \* Generate: number of documents written so far
    srcIdx,     \* Generate: number of sources of the current document rendered
    b,          \* Generate: the content of the strings.Builder
    gErr,       \* Generate: the returned error
    began,      \* Generate: number of iterations of the document loop begun
    wlog,       \* Generate: the os.WriteFile calls that have succeeded, in order
    gStart,     \* Generate: the state it was called in
    diskLeft,   \* the number of non-empty writes the disk has room for
    iPath,      \* init: the path argument of the last runInit
    iErr,       \* init: the error the last runInit returned
    iCalls,     \* init: number of runInit calls so far
    created     \* init: the paths at which a runInit has created the configuration

treeVars == <<treePaths, treeIdx, troot, treeOut>>

collectVars == <<cDirs, cPattern, starts, startIdx, seen, cOut, cErr>>

genVars == <<gDocs, docIdx, srcIdx, b, gErr, began, wlog, gStart>>

initVars == <<iPath, iErr, iCalls, created>>

vars == <<fs, mode, pc, diskLeft, treeVars, collectVars, genVars, initVars>>

(***************************************************************************)
(* Strings                                                                 *)
(***************************************************************************)

\* The byte value of each ASCII rune (the order Go's string comparison goes by).
Ord ==
    ("\t" :> 9) @@ ("\n" :> 10) @@ (" " :> 32) @@ ("!" :> 33) @@ ("\"" :> 34) @@
    ("#" :> 35) @@ ("$" :> 36) @@ ("%" :> 37) @@ ("&" :> 38) @@ ("'" :> 39) @@
    ("(" :> 40) @@ (")" :> 41) @@ ("*" :> 42) @@ ("+" :> 43) @@ ("," :> 44) @@
    ("-" :> 45) @@ ("." :> 46) @@ ("/" :> 47) @@ ("0" :> 48) @@ ("1" :> 49) @@
    ("2" :> 50) @@ ("3" :> 51) @@ ("4" :> 52) @@ ("5" :> 53) @@ ("6" :> 54) @@
    ("7" :> 55) @@ ("8" :> 56) @@ ("9" :> 57) @@ (":" :> 58) @@ (";" :> 59) @@
    ("<" :> 60) @@ ("=" :> 61) @@ (">" :> 62) @@ ("?" :> 63) @@ ("@" :> 64) @@
    ("A" :> 65) @@ ("B" :> 66) @@ ("C" :> 67) @@ ("D" :> 68) @@ ("E" :> 69) @@
    ("F" :> 70) @@ ("G" :> 71) @@ ("H" :> 72) @@ ("I" :> 73) @@ ("J" :> 74) @@
    ("K" :> 75) @@ ("L" :> 76) @@ ("M" :> 77) @@ ("N" :> 78) @@ ("O" :> 79) @@
    ("P" :> 80) @@ ("Q" :> 81) @@ ("R" :> 82) @@ ("S" :> 83) @@ ("T" :> 84) @@
    ("U" :> 85) @@ ("V" :> 86) @@ ("W" :> 87) @@ ("X" :> 88) @@ ("Y" :> 89) @@
    ("Z" :> 90) @@ ("[" :> 91) @@ ("\\" :> 92) @@ ("]" :> 93) @@ ("^" :> 94) @@
    ("_" :> 95) @@ ("U0060" :> 96) @@ ("a" :> 97) @@ ("b" :> 98) @@ ("c" :> 99) @@
    ("d" :> 100) @@ ("e" :> 101) @@ ("f" :> 102) @@ ("g" :> 103) @@ ("h" :> 104) @@
    ("i" :> 105) @@ ("j" :> 106) @@ ("k" :> 107) @@ ("l" :> 108) @@ ("m" :> 109) @@
    ("n" :> 110) @@ ("o" :> 111) @@ ("p" :> 112) @@ ("q" :> 113) @@ ("r" :> 114) @@
    ("s" :> 115) @@ ("t" :> 116) @@ ("u" :> 117) @@ ("v" :> 118) @@ ("w" :> 119) @@
    ("x" :> 120) @@ ("y" :> 121) @@ ("z" :> 122) @@ ("{" :> 123) @@ ("|" :> 124) @@
    ("}" :> 125) @@ ("~" :> 126)

\* filepath.Separator on the Unix build.
Separator == "/"

Min(x, y) == IF x < y THEN x ELSE y

\* Go's string comparison x < y: byte-wise lexicographic.
StrLess(x, y) ==
    \E i \in 1..(Min(Len(x), Len(y)) + 1) :
        /\ \A j \in 1..(i - 1) : x[j] = y[j]
        /\ \/ i > Len(x) /\ i <= Len(y)
           \/ i <= Len(x) /\ i <= Len(y) /\ Ord[x[i]] < Ord[y[i]]

RECURSIVE InsertSorted(_, _)
InsertSorted(s, x) ==
    IF s = <<>> THEN <<x>>
    ELSE IF StrLess(x, Head(s)) THEN <<x>> \o s
    ELSE <<Head(s)>> \o InsertSorted(Tail(s), x)

RECURSIVE SortStrings(_)
\* sort.Strings: the elements of s in ascending order (equal elements are kept).
SortStrings(s) ==
    IF s = <<>> THEN <<>> ELSE InsertSorted(SortStrings(Tail(s)), Head(s))

RECURSIVE KeyOrders(_)
\* The orders in which a Go range over a map with key set S may visit the keys.
KeyOrders(S) ==
    IF S = {} THEN {<<>>}
    ELSE UNION {{<<k>> \o q : q \in KeyOrders(S \ {k})} : k \in S}

\* One of the orders of KeyOrders(S), for code whose result does not depend on it.
SomeOrder(S) == CHOOSE q \in KeyOrders(S) : TRUE

\* The index of the first sep in s.
FirstIndex(s, sep) ==
    CHOOSE k \in 1..Len(s) : s[k] = sep /\ \A j \in 1..(k - 1) : s[j] # sep

RECURSIVE Split(_, _)
SplitAt(s, sep, i) ==
    <<SubSeq(s, 1, i - 1)>> \o Split(SubSeq(s, i + 1, Len(s)), sep)

\* strings.Split(s, sep) for a one-rune separator.
Split(s, sep) ==
    IF \A i \in 1..Len(s) : s[i] # sep THEN <<s>>
    ELSE SplitAt(s, sep, FirstIndex(s, sep))

RECURSIVE Join(_, _)
\* strings.Join(parts, sep).
Join(parts, sep) ==
    IF parts = <<>> THEN <<>>
    ELSE IF Len(parts) = 1 THEN parts[1]
    ELSE parts[1] \o <<sep>> \o Join(Tail(parts), sep)

LastOf(parts) == parts[Len(parts)]

AllButLast(parts) == SubSeq(parts, 1, Len(parts) - 1)

DotDot == <<".", ".">>

\* filepath.Clean's element stack after element p: "" and "." are dropped, ".."
\* removes the element before it, or is dropped at the root, or is kept by a
\* relative path.
CleanPush(p, rooted, acc) ==
    IF p = <<>> \/ p = <<".">> THEN acc
    ELSE IF p # DotDot THEN Append(acc, p)
    ELSE IF acc # <<>> /\ LastOf(acc) # DotDot THEN AllButLast(acc)
    ELSE IF rooted THEN acc
    ELSE Append(acc, p)

RECURSIVE CleanParts(_, _, _)
\* The elements of the cleaned path.
CleanParts(parts, rooted, acc) ==
    IF parts = <<>> THEN acc
    ELSE CleanParts(Tail(parts), rooted, CleanPush(Head(parts), rooted, acc))

\* filepath.IsAbs on the Unix build.
IsAbs(p) == p # <<>> /\ p[1] = Separator

OrDot(r) == IF r = <<>> THEN <<".">> ELSE r

CleanJoined(rooted, body) ==
    IF rooted THEN <<Separator>> \o body ELSE OrDot(body)

\* filepath.Clean on the Unix build.
Clean(p) ==
    CleanJoined(IsAbs(p),
                Join(CleanParts(Split(p, Separator), IsAbs(p), <<>>), Separator))

\* filepath.Join(x, y).
JoinPath(x, y) ==
    IF x = <<>> /\ y = <<>> THEN <<>>
    ELSE Clean(IF x = <<>> THEN y
               ELSE IF y = <<>> THEN x
               ELSE x \o <<Separator>> \o y)

BaseOfClean(c) ==
    IF c = <<Separator>> THEN c ELSE LastOf(Split(c, Separator))

\* filepath.Base.
Base(p) == BaseOfClean(Clean(p))

OrRoot(h) == IF h = <<>> THEN <<Separator>> ELSE h

DirOfParts(parts) ==
    IF Len(parts) = 1 THEN <<".">>
    ELSE OrRoot(Join(AllButLast(parts), Separator))

\* filepath.Dir.
Dir(p) == DirOfParts(Split(Clean(p), Separator))

\* filepath.ToSlash: every Separator becomes a slash.
ToSlash(p) == [i \in 1..Len(p) |-> IF p[i] = Separator THEN "/" ELSE p[i]]

RECURSIVE CommonLen(_, _)
CommonLen(x, y) ==
    IF x = <<>> \/ y = <<>> \/ Head(x) # Head(y) THEN 0
    ELSE 1 + CommonLen(Tail(x), Tail(y))

Ups(k) == [i \in 1..k |-> DotDot]

RelFrom(bp, tp, n) ==
    OrDot(Join(Ups(Len(bp) - n) \o SubSeq(tp, n + 1, Len(tp)), Separator))

RelParts(bp, tp) == RelFrom(bp, tp, CommonLen(bp, tp))

AbsParts(p) == CleanParts(Split(p, Separator), TRUE, <<>>)

\* filepath.Rel(base, targ) for two absolute paths: ".." for every element of base
\* below the common prefix, then the rest of targ.
Rel(base, targ) == RelParts(AbsParts(base), AbsParts(targ))

(***************************************************************************)
(* Errors: an error is the chain of its wrappings, outermost first, and    *)
(* nil is the empty chain.                                                 *)
(***************************************************************************)

nil == <<>>

\* errors.New / a system error: op names the error, arg what it is about.
Err(op, arg) == <<[op |-> op, arg |-> arg]>>

\* fmt.Errorf("op arg: %w", e).
Wrap(op, arg, e) == <<[op |-> op, arg |-> arg]>> \o e

(***************************************************************************)
(* The filesystem: fs maps each absolute path that exists to its entry.    *)
(* An entry's fault is the I/O error the path answers with: "stat" fails   *)
(* os.Stat on it, "walk" fails the listing of the directory, "read" fails  *)
(* os.ReadFile on it.  There are no symbolic links.                        *)
(***************************************************************************)

\* The working directory of the process.
Cwd == <<"/", "w">>

\* filepath.Abs (os.Getwd is taken to succeed).
Abs(p) == IF IsAbs(p) THEN Clean(p) ELSE JoinPath(Cwd, p)

DirEntry == [isDir |-> TRUE, data |-> <<>>, fault |-> "none"]

FileEntry(data) == [isDir |-> FALSE, data |-> data, fault |-> "none"]

RECURSIVE Ancestors(_)
WithAncestors(d) == {d} \cup Ancestors(d)

\* The directories above a clean absolute path.
Ancestors(p) == IF p = <<Separator>> THEN {} ELSE WithAncestors(Dir(p))

\* os.Stat: err is "" on success, "ENOENT" (the only error that is
\* os.ErrNotExist), "ENOTDIR" below a regular file, "EACCES" on a faulty path.
Stat(f, p) ==
    IF p \in DOMAIN f
    THEN IF f[p].fault = "stat" THEN [err |-> "EACCES", isDir |-> FALSE]
         ELSE [err |-> "", isDir |-> f[p].isDir]
    ELSE IF \E a \in Ancestors(p) : a \in DOMAIN f /\ ~f[a].isDir
         THEN [err |-> "ENOTDIR", isDir |-> FALSE]
         ELSE [err |-> "ENOENT", isDir |-> FALSE]

IsNotExistNever(e) == FALSE

\* errors.Is(err, os.ErrNotExist): of the errors of os.Stat, ENOENT alone.
IsNotExist(e) == e = "ENOENT"

\* The entries of directory d.
ChildrenOf(f, d) == {p \in DOMAIN f : p # d /\ Dir(p) = d}

\* The sorted names of the entries of directory d (os.ReadDir).
SortedNames(f, d) == SortStrings(SomeOrder({Base(c) : c \in ChildrenOf(f, d)}))

(***************************************************************************)
(* Patterns.  The patterns of the model hold no "]" and no backslash, so a *)
(* "[" opens a character class that never closes: a malformed pattern.     *)
(***************************************************************************)

RECURSIVE MatchOk(_, _)
\* Whether name matches the well-formed pattern p: "*" is any run of
\* non-Separator runes, "?" any one of them, any other rune itself.
MatchOk(p, name) ==
    IF p = <<>> THEN name = <<>>
    ELSE IF p[1] = "*"
         THEN \/ MatchOk(Tail(p), name)
              \/ name # <<>> /\ name[1] # Separator /\ MatchOk(p, Tail(name))
    ELSE IF p[1] = "?"
         THEN name # <<>> /\ name[1] # Separator /\ MatchOk(Tail(p), Tail(name))
    ELSE name # <<>> /\ name[1] = p[1] /\ MatchOk(Tail(p), Tail(name))

MaxOr0(S) == IF S = {} THEN 0 ELSE CHOOSE i \in S : \A j \in S : j <= i

\* The index of the last "*" before the first "[" of p, or 0.
LastStar(p) == MaxOr0({i \in 1..(FirstIndex(p, "[") - 1) : p[i] = "*"})

\* filepath.Match on a malformed pattern: it never matches, and the pattern is
\* reported (ErrBadPattern) when the chunks before its last chunk, the one with
\* the "[", have matched; with no "*" before the "[" there is one chunk.
BadMatch(p, name, star) ==
    [ok |-> FALSE, err |-> star = 0 \/ MatchOk(SubSeq(p, 1, star), name)]

\* filepath.Match(p, name).
Match(p, name) ==
    IF \A i \in 1..Len(p) : p[i] # "["
    THEN [ok |-> MatchOk(p, name), err |-> FALSE]
    ELSE BadMatch(p, name, LastStar(p))

RECURSIVE TrimLeft(_)
TrimLeft(s) ==
    IF s # <<>> /\ s[1] \in {" ", "\t", "\n"} THEN TrimLeft(Tail(s)) ELSE s

RECURSIVE TrimRight(_)
TrimRight(s) ==
    IF s # <<>> /\ LastOf(s) \in {" ", "\t", "\n"}
    THEN TrimRight(AllButLast(s))
    ELSE s

\* strings.TrimSpace.
TrimSpace(s) == TrimRight(TrimLeft(s))

TrimAll(parts) == [i \in 1..Len(parts) |-> TrimSpace(parts[i])]

NonEmpty(q) == q # <<>>

\* splitPatterns: the entries between commas, trimmed, the empty ones dropped.
splitPatterns(csv) == SelectSeq(TrimAll(Split(csv, ",")), NonEmpty)

\* matchAny: filepath.Match's error is dropped.
matchAny(patterns, name) ==
    \E i \in 1..Len(patterns) : Match(patterns[i], name).ok

\* hasGlob.
hasGlob(p) == \E i \in 1..Len(p) : p[i] \in {"*", "?", "["}

\* The directory part of an absolute glob pattern (filepath.Split, cleanGlobPath).
GlobDir(pattern) == OrRoot(Join(AllButLast(Split(pattern, Separator)), Separator))

\* The last element of a glob pattern.
GlobFile(pattern) == LastOf(Split(pattern, Separator))

RECURSIVE GlobNames(_, _, _, _)
\* One name of filepath.glob's loop, r being what Match answers for it.
GlobName(dir, pattern, names, m, r) ==
    IF r.err THEN [matches |-> m, err |-> TRUE]
    ELSE GlobNames(dir, pattern, Tail(names),
                   IF r.ok THEN Append(m, JoinPath(dir, Head(names))) ELSE m)

\* filepath.glob's loop over the sorted names of dir; a malformed pattern ends it.
GlobNames(dir, pattern, names, m) ==
    IF names = <<>> THEN [matches |-> m, err |-> FALSE]
    ELSE GlobName(dir, pattern, names, m, Match(pattern, Head(names)))

\* Whether filepath.glob can list dir, st being what os.Stat answers for it.
Listable(f, dir, st) == st.err = "" /\ st.isDir /\ f[dir].fault # "walk"

\* filepath.glob(dir, pattern, m): I/O errors are ignored.
GlobIn(f, dir, pattern, m) ==
    IF Listable(f, dir, Stat(f, dir))
    THEN GlobNames(dir, pattern, SortedNames(f, dir), m)
    ELSE [matches |-> m, err |-> FALSE]

RECURSIVE GlobEach(_, _, _, _)
GlobNext(f, dirs, pattern, g) ==
    IF g.err THEN g ELSE GlobEach(f, Tail(dirs), pattern, g.matches)

\* filepath.Glob's loop over the matches of the directory part.
GlobEach(f, dirs, pattern, m) ==
    IF dirs = <<>> THEN [matches |-> m, err |-> FALSE]
    ELSE GlobNext(f, dirs, pattern, GlobIn(f, Head(dirs), pattern, m))

RECURSIVE Glob(_, _)
GlobUnder(f, file, d) ==
    IF d.err THEN d ELSE GlobEach(f, d.matches, file, <<>>)

GlobSplit(f, dir, file) ==
    IF ~hasGlob(dir) THEN GlobIn(f, dir, file, <<>>)
    ELSE GlobUnder(f, file, Glob(f, dir))

\* filepath.Glob on an absolute pattern: err is ErrBadPattern.
Glob(f, pattern) ==
    IF Match(pattern, <<>>).err THEN [matches |-> <<>>, err |-> TRUE]
    ELSE IF ~hasGlob(pattern)
         THEN [matches |-> IF Stat(f, pattern).err = "" THEN <<pattern>> ELSE <<>>,
               err |-> FALSE]
    ELSE GlobSplit(f, GlobDir(pattern), GlobFile(pattern))

(***************************************************************************)
(* collectFiles                                                            *)
(***************************************************************************)

CleanAll(ms) == [i \in 1..Len(ms) |-> Clean(ms[i])]

RECURSIVE expandFrom(_, _, _, _)
\* expandSourceStarts on a glob entry, g being what filepath.Glob answers.
expandGlob(f, rootAbs, dirs, out, pat, g) ==
    IF g.err
    THEN [starts |-> <<>>, err |-> Wrap("glob", pat, Err("ErrBadPattern", <<>>))]
    ELSE expandFrom(f, rootAbs, Tail(dirs), out \o CleanAll(g.matches))

\* expandSourceStarts on one entry, resolved to pat.
expandPat(f, rootAbs, dirs, out, pat) ==
    IF hasGlob(pat) THEN expandGlob(f, rootAbs, dirs, out, pat, Glob(f, pat))
    ELSE expandFrom(f, rootAbs, Tail(dirs), Append(out, Clean(pat)))

\* The loop of expandSourceStarts over dirs, out being the starts so far.
expandFrom(f, rootAbs, dirs, out) ==
    IF dirs = <<>> THEN [starts |-> out, err |-> nil]
    ELSE expandPat(f, rootAbs, dirs, out,
                   IF IsAbs(Head(dirs)) THEN Head(dirs)
                   ELSE JoinPath(rootAbs, Head(dirs)))

\* expandSourceStarts.
expandSourceStarts(f, rootAbs, dirs) == expandFrom(f, rootAbs, dirs, <<>>)

includedNoEmpty(patterns, name) == matchAny(patterns, name)

\* The test both branches of collectFiles apply to a file's base name.
included(patterns, name) == Len(patterns) = 0 \/ matchAny(patterns, name)

\* The body of the two branches: the file at path is put into seen if included.
collectOne(rootAbs, patterns, acc, path) ==
    IF included(patterns, Base(path))
    THEN acc \cup {ToSlash(Rel(rootAbs, path))}
    ELSE acc

RECURSIVE walkDir(_, _, _, _, _)
RECURSIVE walkEach(_, _, _, _, _, _)
walkNext(f, rootAbs, patterns, dir, names, w) ==
    IF w.err # nil THEN w
    ELSE walkEach(f, rootAbs, patterns, w.seen, dir, Tail(names))

\* filepath.WalkDir's visit of the sorted entries of a directory.
walkEach(f, rootAbs, patterns, acc, dir, names) ==
    IF names = <<>> THEN [seen |-> acc, err |-> nil]
    ELSE walkNext(f, rootAbs, patterns, dir, names,
                  walkDir(f, rootAbs, patterns, acc, JoinPath(dir, Head(names))))

\* filepath.WalkDir with collectFiles' callback: a directory is not collected, a
\* directory that cannot be listed ends the walk with the error, any other entry
\* is collected if included.
walkDir(f, rootAbs, patterns, acc, path) ==
    IF f[path].isDir
    THEN IF f[path].fault = "walk"
         THEN [seen |-> acc, err |-> Err("EACCES", path)]
         ELSE walkEach(f, rootAbs, patterns, acc, path, SortedNames(f, path))
    ELSE [seen |-> collectOne(rootAbs, patterns, acc, path), err |-> nil]

\* The end of an iteration that walked a directory, w being the walk's result.
visitWalked(acc, start, w) ==
    IF w.err # nil THEN [seen |-> acc, err |-> Wrap("walk", start, w.err)]
    ELSE [seen |-> w.seen, err |-> nil]

\* An iteration of collectFiles' loop, info being what os.Stat answers for start.
visitInfo(f, rootAbs, patterns, acc, start, info) ==
    IF IsNotExist(info.err) THEN [seen |-> acc, err |-> nil]
    ELSE IF info.err # ""
         THEN [seen |-> acc, err |-> Wrap("stat", start, Err(info.err, <<>>))]
    ELSE IF ~info.isDir
         THEN [seen |-> collectOne(rootAbs, patterns, acc, start), err |-> nil]
    ELSE visitWalked(acc, start, walkDir(f, rootAbs, patterns, acc, start))

\* One iteration of collectFiles' loop over starts.
visitStart(f, rootAbs, patterns, acc, start) ==
    visitInfo(f, rootAbs, patterns, acc, start, Stat(f, start))

RECURSIVE visitAll(_, _, _, _, _)
visitNext(f, rootAbs, patterns, todo, v) ==
    IF v.err # nil THEN v ELSE visitAll(f, rootAbs, patterns, v.seen, Tail(todo))

\* collectFiles' loop over starts.
visitAll(f, rootAbs, patterns, acc, todo) ==
    IF todo = <<>> THEN [seen |-> acc, err |-> nil]
    ELSE visitNext(f, rootAbs, patterns, todo,
                   visitStart(f, rootAbs, patterns, acc, Head(todo)))

sortNone(keys) == keys

\* The end of collectFiles: the keys of seen, sorted.
sortOut(keys) == SortStrings(keys)

\* collectFiles after its loop, v being the loop's result.
collectVisited(v) ==
    IF v.err # nil THEN [files |-> <<>>, err |-> v.err]
    ELSE [files |-> sortOut(SomeOrder(v.seen)), err |-> nil]

\* collectFiles after the expansion, ex being its result.
collectExpanded(f, rootAbs, patterns, ex) ==
    IF ex.err # nil THEN [files |-> <<>>, err |-> ex.err]
    ELSE collectVisited(visitAll(f, rootAbs, patterns, {}, ex.starts))

collectAt(f, rootAbs, dirs, patternCSV) ==
    collectExpanded(f, rootAbs, splitPatterns(patternCSV),
                    expandSourceStarts(f, rootAbs, dirs))

\* collectFiles(root, dirs, patternCSV) on filesystem f.
collectFiles(f, root, dirs, patternCSV) == collectAt(f, Abs(root), dirs, patternCSV)

(***************************************************************************)
(* renderTree                                                              *)
(***************************************************************************)

\* The node graph: a node is named by the chain of child names from the root,
\* <<>> being the root; troot maps each node that exists to its isFile flag.
\* newNode: a node with no children that is not a file.
newNode == [isFile |-> FALSE]

\* The keys of n.children.
children(t, n) ==
    {k \in DOMAIN t : Len(k) = Len(n) + 1 /\ SubSeq(k, 1, Len(n)) = n}

\* splitPath.
splitPath(p) == Split(Clean(p), Separator)

\* cur.children[part], made if it is not there.
withNode(t, n) == IF n \in DOMAIN t THEN t ELSE (n :> newNode) @@ t

setFile(t, n, v) == [t EXCEPT ![n] = [isFile |-> v]]

insertPartAssign(t, n, last) == setFile(withNode(t, n), n, last)

\* One iteration of insertPath's loop: the node of the last part is marked.
insertPart(t, n, last) ==
    IF last THEN setFile(withNode(t, n), n, TRUE) ELSE withNode(t, n)

RECURSIVE insertFrom(_, _, _)
\* The loop of insertPath from part i on.
insertFrom(t, parts, i) ==
    IF i > Len(parts) THEN t
    ELSE insertFrom(insertPart(t, SubSeq(parts, 1, i), i = Len(parts)), parts, i + 1)

\* insertPath.
insertPath(t, rel) == insertFrom(t, splitPath(rel), 1)

\* isDir without the negation: a node with children that is marked as a file.
isDirMarked(t, n) == children(t, n) # {} /\ t[n].isFile

\* isDir: a node with children that is not marked as a file.
isDir(t, n) == children(t, n) # {} /\ ~t[n].isFile

\* The name of node n.
nodeName(n) == LastOf(n)

sortedNamesOf(S) == SortStrings(SomeOrder({nodeName(k) : k \in S}))

sortedKeysPlain(t, n) == sortedNamesOf(children(t, n))

\* sortedKeys(n.children, true): the directories sorted, then the files sorted.
sortedKeys(t, n) ==
    sortedNamesOf({c \in children(t, n) : isDir(t, c)})
        \o sortedNamesOf({c \in children(t, n) : ~isDir(t, c)})

branchOf(isLast) ==
    IF isLast THEN <<"U2514", "U2500", "U2500", " ">>
    ELSE <<"U251C", "U2500", "U2500", " ">>

nextPrefixOf(prefix, isLast) ==
    IF isLast THEN prefix \o <<" ", " ", " ", " ">>
    ELSE prefix \o <<"U2502", " ", " ", " ">>

RECURSIVE renderNode(_, _, _, _)
RECURSIVE renderChildren(_, _, _, _, _)
\* The loop over names in renderNode and renderTree, from index i on.
renderChildren(t, n, names, prefix, i) ==
    IF i > Len(names) THEN <<>>
    ELSE renderNode(t, Append(n, names[i]), prefix, i = Len(names))
         \o renderChildren(t, n, names, prefix, i + 1)

\* renderNode: what it writes to the builder.
renderNode(t, n, prefix, isLast) ==
    IF isDir(t, n)
    THEN prefix \o branchOf(isLast) \o nodeName(n) \o <<"/", "\n">>
         \o renderChildren(t, n, sortedKeys(t, n), nextPrefixOf(prefix, isLast), 1)
    ELSE prefix \o branchOf(isLast) \o nodeName(n) \o <<"\n">>

RECURSIVE insertAll(_, _)
\* The insertion loop of renderTree.
insertAll(t, paths) ==
    IF paths = <<>> THEN t ELSE insertAll(insertPath(t, Head(paths)), Tail(paths))

\* The graph renderTree starts from: the root alone.
emptyTree == (<<>> :> newNode)

\* The rendering part of renderTree, of the graph t.
renderRoot(t) == renderChildren(t, <<>>, sortedKeys(t, <<>>), <<>>, 1)

\* renderTree.
renderTree(paths) == renderRoot(insertAll(emptyTree, paths))

(***************************************************************************)
(* Generate                                                                *)
(***************************************************************************)

\* The projectRoot argument Generate is given by runGenerate.
ProjectRoot == <<".">>

Range(q) == {q[i] : i \in 1..Len(q)}

UpperRunes ==
    <<"A", "B", "C", "D", "E", "F", "G", "H", "I", "J", "K", "L", "M",
      "N", "O", "P", "Q", "R", "S", "T", "U", "V", "W", "X", "Y", "Z">>

LowerRunes ==
    <<"a", "b", "c", "d", "e", "f", "g", "h", "i", "j", "k", "l", "m",
      "n", "o", "p", "q", "r", "s", "t", "u", "v", "w", "x", "y", "z">>

ToLowerRune(c) ==
    IF \E i \in DOMAIN UpperRunes : UpperRunes[i] = c
    THEN LowerRunes[CHOOSE i \in DOMAIN UpperRunes : UpperRunes[i] = c]
    ELSE c

\* strings.ToLower on ASCII.
ToLower(s) == [i \in 1..Len(s) |-> ToLowerRune(s[i])]

ExtAt(path, i) == IF i = 0 THEN <<>> ELSE SubSeq(path, i, Len(path))

\* filepath.Ext: the suffix from the last dot of the last element, or "".
Ext(path) ==
    ExtAt(path, MaxOr0({i \in 1..Len(path) :
                           /\ path[i] = "."
                           /\ \A j \in i..Len(path) : path[j] # Separator}))

\* The cases of detectLang's switch.
LangTable ==
    (<<".", "g", "o">> :> <<"g", "o">>) @@
    (<<".", "p", "h", "p">> :> <<"p", "h", "p">>) @@
    (<<".", "t", "w", "i", "g">> :> <<"t", "w", "i", "g">>) @@
    (<<".", "j", "s">> :> <<"j", "a", "v", "a", "s", "c", "r", "i", "p", "t">>) @@
    (<<".", "t", "s">> :> <<"t", "y", "p", "e", "s", "c", "r", "i", "p", "t">>) @@
    (<<".", "j", "s", "o", "n">> :> <<"j", "s", "o", "n">>) @@
    (<<".", "y", "a", "m", "l">> :> <<"y", "a", "m", "l">>) @@
    (<<".", "y", "m", "l">> :> <<"y", "a", "m", "l">>) @@
    (<<".", "m", "d">> :> <<"m", "d">>)

langOf(ext) == IF ext \in DOMAIN LangTable THEN LangTable[ext] ELSE <<>>

\* detectLang.
detectLang(path) == langOf(ToLower(Ext(path)))

EscapeRune(c) ==
    CASE c = "\"" -> <<"\\", "\"">>
      [] c = "\\" -> <<"\\", "\\">>
      [] c = "\n" -> <<"\\", "n">>
      [] c = "\t" -> <<"\\", "t">>
      [] OTHER -> <<c>>

RECURSIVE Escape(_)
Escape(s) == IF s = <<>> THEN <<>> ELSE EscapeRune(Head(s)) \o Escape(Tail(s))

\* The verb %q of fmt on a string of printable ASCII, tabs and newlines.
Quote(s) == <<"\"">> \o Escape(s) \o <<"\"">>

\* The verb %v of fmt on a []string.
FmtSlice(list) == <<"[">> \o Join(list, " ") \o <<"]">>

\* The three backquotes that open and close a code block.
Fence == <<"U0060", "U0060", "U0060">>

\* What the tree case writes when no file was collected.
noMatchTree(src) ==
    Fence \o <<"\n", "(no matches for ">> \o Quote(src.filePattern) \o <<" in ">>
        \o FmtSlice(src.sourcePaths) \o <<")", "\n">> \o Fence \o <<"\n", "\n">>

\* What the file case writes when no file was collected.
noMatchFile(src) ==
    <<"_No files matched ">> \o Quote(src.filePattern) \o <<" under ">>
        \o FmtSlice(src.sourcePaths) \o <<"_", "\n", "\n">>

\* What the tree case writes for a rendered tree.
treeBlock(tree) == Fence \o <<"\n">> \o tree \o <<"\n">> \o Fence \o <<"\n", "\n">>

fileHead(rel, lang) ==
    <<"### ">> \o rel \o <<"\n", "\n">>
        \o (IF lang # <<>> THEN Fence \o lang \o <<"\n">> ELSE Fence \o <<"\n">>)

fileBody(data) ==
    IF Len(data) > 0 /\ data[Len(data)] # "\n" THEN data \o <<"\n">> ELSE data

\* What the file case writes for one file.
fileBlock(rel, data) ==
    fileHead(rel, detectLang(rel)) \o fileBody(data) \o Fence \o <<"\n", "\n">>

readAt(f, p) ==
    IF p \notin DOMAIN f THEN [data |-> <<>>, err |-> Err("ENOENT", p)]
    ELSE IF f[p].isDir THEN [data |-> <<>>, err |-> Err("EISDIR", p)]
    ELSE IF f[p].fault = "read" THEN [data |-> <<>>, err |-> Err("EACCES", p)]
    ELSE [data |-> f[p].data, err |-> nil]

\* os.ReadFile; a relative path is taken from the working directory.
ReadFile(f, path) == readAt(f, Abs(path))

RECURSIVE readFiles(_, _, _)
readNext(f, out, files, r) ==
    IF r.err # nil THEN [b |-> out, err |-> Wrap("read", Head(files), r.err)]
    ELSE readFiles(f, out \o fileBlock(Head(files), r.data), Tail(files))

\* The loop of the file case over files, out being what it has written so far.
readFiles(f, out, files) ==
    IF files = <<>> THEN [b |-> out, err |-> nil]
    ELSE readNext(f, out, files, ReadFile(f, JoinPath(ProjectRoot, Head(files))))

\* os.Mkdir of p, whose parent has been seen to.
Mkdir(f, p) ==
    IF p \in DOMAIN f THEN [fs |-> f, err |-> Err("EEXIST", p)]
    ELSE IF Dir(p) \notin DOMAIN f THEN [fs |-> f, err |-> Err("ENOENT", p)]
    ELSE IF ~f[Dir(p)].isDir THEN [fs |-> f, err |-> Err("ENOTDIR", p)]
    ELSE [fs |-> (p :> DirEntry) @@ f, err |-> nil]

RECURSIVE MkdirAll(_, _)
mkdirIn(r, p) == IF r.err # nil THEN r ELSE Mkdir(r.fs, p)

mkdirStat(f, p, st) ==
    IF st.err = ""
    THEN [fs |-> f, err |-> IF st.isDir THEN nil ELSE Err("ENOTDIR", p)]
    ELSE mkdirIn(MkdirAll(f, Dir(p)), p)

\* os.MkdirAll of an absolute path: nothing to do for a directory, an error for
\* anything else that is there, else the parent is made and then the directory.
MkdirAll(f, p) == mkdirStat(f, p, Stat(f, p))

ensureFailed(dir, r, st) ==
    IF st.err = "" /\ ~st.isDir
    THEN [fs |-> r.fs, err |-> Err("path exists and is not a directory", dir)]
    ELSE r

ensureMade(dir, r) ==
    IF r.err = nil THEN r ELSE ensureFailed(dir, r, Stat(r.fs, Abs(dir)))

\* ensureDir of the generator package.
ensureDir(f, dir) ==
    IF dir = <<>> \/ dir = <<".">> THEN [fs |-> f, err |-> nil]
    ELSE ensureMade(dir, MkdirAll(f, Abs(dir)))

\* os.WriteFile once the file is open: with no room left on the disk the file
\* stays empty and the write fails.
writeData(f, left, p, data) ==
    IF data # <<>> /\ left = 0
    THEN [fs |-> (p :> FileEntry(<<>>)) @@ f, left |-> left, err |-> Err("ENOSPC", p)]
    ELSE [fs |-> (p :> FileEntry(data)) @@ f,
          left |-> IF data # <<>> THEN left - 1 ELSE left,
          err |-> nil]

\* os.WriteFile's open with O_CREATE|O_TRUNC, st being what is at the path.
writeOpen(f, left, p, data, st) ==
    IF st.err = "" /\ st.isDir THEN [fs |-> f, left |-> left, err |-> Err("EISDIR", p)]
    ELSE IF st.err \notin {"", "ENOENT"}
         THEN [fs |-> f, left |-> left, err |-> Err(st.err, p)]
    ELSE IF st.err = "ENOENT" /\ Dir(p) \notin DOMAIN f
         THEN [fs |-> f, left |-> left, err |-> Err("ENOENT", p)]
    ELSE writeData(f, left, p, data)

\* os.WriteFile; the empty path names no file.
WriteFile(f, left, path, data) ==
    IF path = <<>> THEN [fs |-> f, left |-> left, err |-> Err("ENOENT", path)]
    ELSE writeOpen(f, left, Abs(path), data, Stat(f, Abs(path)))

\* Whether rel is one of the paths ex or lies below one.
underExcluded(rel, ex) ==
    \E e \in Range(ex) :
        rel = e \/ (Len(rel) > Len(e) /\ SubSeq(rel, 1, Len(e) + 1) = e \o <<"/">>)

keepIncluded(c, ex) ==
    [c EXCEPT !.files = SelectSeq(@, LAMBDA rel : ~underExcluded(rel, ex))]

SourceFilesExcluding(f, src) ==
    keepIncluded(collectFiles(f, ProjectRoot, src.sourcePaths, src.filePattern),
                 src.excludePaths)

\* The call of collectFiles for a source.
SourceFiles(f, src) ==
    collectFiles(f, ProjectRoot, src.sourcePaths, src.filePattern)

\* Generate's state g: the filesystem, the position, the loop indices, the
\* builder, the error to return, and what has been begun and written.
\* The state Generate is called in.
Start(f, left) ==
    [fs |-> f, pc |-> "doc", docIdx |-> 0, srcIdx |-> 0, b |-> <<>>, err |-> nil,
     diskLeft |-> left, began |-> 0, wlog |-> <<>>]

abortSkip(g, e) == [g EXCEPT !.pc = "doc", !.err = e, !.docIdx = @ + 1]

\* A return of an error from inside the loops.
abort(g, e) == [g EXCEPT !.pc = "done", !.err = e]

\* The end of an iteration of the source loop that has written text.
emit(doc, g, text) ==
    [g EXCEPT !.b = @ \o text,
              !.srcIdx = @ + 1,
              !.pc = IF g.srcIdx + 1 = Len(doc.sources) THEN "ensure" ELSE "source"]

unknownTypeSkip(doc, g, src) == emit(doc, g, <<>>)

\* The default case of the switch.
unknownType(doc, g, src) == abort(g, Err("unknown source type", src.type))

\* The tree case of the switch.
treeSource(doc, g, src, files) ==
    IF Len(files) = 0 THEN emit(doc, g, noMatchTree(src))
    ELSE emit(doc, g, treeBlock(renderTree(files)))

fileRead(doc, g, r) ==
    IF r.err # nil THEN abort([g EXCEPT !.b = @ \o r.b], r.err)
    ELSE emit(doc, g, r.b)

\* The file case of the switch.
fileSource(doc, g, src, files) ==
    IF Len(files) = 0 THEN emit(doc, g, noMatchFile(src))
    ELSE fileRead(doc, g, readFiles(g.fs, <<>>, files))

\* The switch on the lower-cased type lt.
dispatch(doc, g, src, files, lt) ==
    IF lt = <<"t", "r", "e", "e">> THEN treeSource(doc, g, src, files)
    ELSE IF lt = <<"f", "i", "l", "e">> THEN fileSource(doc, g, src, files)
    ELSE unknownType(doc, g, src)

\* An iteration of the source loop, c being what collectFiles returned.
collected(doc, g, src, c) ==
    IF c.err # nil THEN abort(g, Wrap("collect files for", src.type, c.err))
    ELSE dispatch(doc, g, src, c.files, ToLower(src.type))

sourceAt(doc, g, src) == collected(doc, g, src, SourceFiles(g.fs, src))

sourceOf(doc, g) == sourceAt(doc, g, doc.sources[g.srcIdx + 1])

\* One iteration of the loop over doc.Sources.
genSource(docs, g) == sourceOf(docs[g.docIdx + 1], g)

\* What is written for doc.Description.
heading(doc) ==
    IF doc.description # <<>> THEN <<"# ">> \o doc.description \o <<"\n", "\n">>
    ELSE <<>>

beginDoc(doc, g) ==
    [g EXCEPT !.b = heading(doc),
              !.srcIdx = 0,
              !.began = @ + 1,
              !.pc = IF Len(doc.sources) = 0 THEN "ensure" ELSE "source"]

\* The start of an iteration of the loop over c.Documents: a new builder, and
\* the heading.
genBegin(docs, g) == beginDoc(docs[g.docIdx + 1], g)

ensured(g, r) ==
    IF r.err # nil THEN abort([g EXCEPT !.fs = r.fs], r.err)
    ELSE [g EXCEPT !.fs = r.fs, !.pc = "write"]

\* The call of ensureDir for the directory of doc.OutputPath.
genEnsure(docs, g) == ensured(g, ensureDir(g.fs, Dir(docs[g.docIdx + 1].outputPath)))

wrote(doc, g, w) ==
    IF w.err # nil
    THEN abort([g EXCEPT !.fs = w.fs], Wrap("write output", doc.outputPath, w.err))
    ELSE [g EXCEPT !.fs = w.fs,
                   !.diskLeft = w.left,
                   !.docIdx = @ + 1,
                   !.pc = "doc",
                   !.wlog = Append(@, [path |-> doc.outputPath, data |-> g.b])]

writeDoc(doc, g) == wrote(doc, g, WriteFile(g.fs, g.diskLeft, doc.outputPath, g.b))

\* The call of os.WriteFile with the builder's content.
genWrite(docs, g) == writeDoc(docs[g.docIdx + 1], g)

\* The return after the last document.
genReturn(g) == [g EXCEPT !.pc = "done"]

\* The next step of Generate in state g.
genStep(docs, g) ==
    CASE g.pc = "doc" ->
             IF g.docIdx = Len(docs) THEN genReturn(g) ELSE genBegin(docs, g)
      [] g.pc = "source" -> genSource(docs, g)
      [] g.pc = "ensure" -> genEnsure(docs, g)
      [] g.pc = "write" -> genWrite(docs, g)

RECURSIVE genRun(_, _)
\* Generate from state g to its return.
genRun(docs, g) == IF g.pc = "done" THEN g ELSE genRun(docs, genStep(docs, g))

\* Generate(c, projectRoot) called on filesystem f with room for left writes.
Generate(docs, f, left) == genRun(docs, Start(f, left))

(***************************************************************************)
(* init                                                                    *)
(***************************************************************************)

\* defaultConfigPath.
defaultConfigPath == <<"c", "o", "n", "f", "i", "g", ".", "y", "a", "m", "l">>

\* The Sources of the default configuration hold the same paths and patterns.
DefaultSourcePaths ==
    << <<"s", "r", "c">>,
       <<"m", "i", "g", "r", "a", "t", "i", "o", "n", "s">>,
       <<"t", "e", "m", "p", "l", "a", "t", "e", "s">> >>

DefaultExcludePaths ==
    << <<"v", "e", "n", "d", "o", "r">>,
       <<"n", "o", "d", "e", "_", "m", "o", "d", "u", "l", "e", "s">>,
       <<".", "g", "i", "t">> >>

DefaultFilePattern == <<"*", ".", "p", "h", "p", ",", "*", ".", "t", "w",
                        "i", "g">>

\* cfg.Default().
Default ==
    [projectPath |-> <<".">>,
     documents |-> <<
        [description |->
            <<"P", "r", "o", "j", "e", "c", "t", " ", "s", "t", "r", "u",
              "c", "t", "u", "r", "e", " ", "o", "v", "e", "r", "v", "i",
              "e", "w">>,
         outputPath |->
            <<"p", "r", "o", "j", "e", "c", "t", "-", "s", "t", "r", "u",
              "c", "t", "u", "r", "e", ".", "m", "d">>,
         sources |-> <<
            [type |-> <<"t", "r", "e", "e">>,
             sourcePaths |-> DefaultSourcePaths,
             excludePaths |-> DefaultExcludePaths,
             filePattern |-> DefaultFilePattern],
            [type |-> <<"f", "i", "l", "e">>,
             sourcePaths |-> DefaultSourcePaths,
             excludePaths |-> DefaultExcludePaths,
             filePattern |-> DefaultFilePattern] >>] >>]

\* A scalar of a YAML document: the empty string and a string that starts with
\* an indicator are quoted.
YamlScalar(s) ==
    IF s = <<>> THEN <<"\"", "\"">>
    ELSE IF s[1] \in {"*", "&", "!", "[", "]", "{", "}", "#", "|", ">", "@", "%", "'"}
         THEN <<"'">> \o s \o <<"'">>
    ELSE s

RECURSIVE YamlItems(_, _)
YamlItems(indent, list) ==
    IF list = <<>> THEN <<>>
    ELSE <<indent, "- ">> \o YamlScalar(Head(list)) \o <<"\n">>
         \o YamlItems(indent, Tail(list))

YamlList(key, indent, list) ==
    IF list = <<>> THEN <<key, " []", "\n">>
    ELSE <<key, "\n">> \o YamlItems(indent, list)

YamlSource(src) ==
    <<"        - type: ">> \o YamlScalar(src.type) \o <<"\n">>
        \o YamlList("          sourcePaths:", "            ", src.sourcePaths)
        \o YamlList("          excludePaths:", "            ", src.excludePaths)
        \o <<"          filePattern: ">> \o YamlScalar(src.filePattern) \o <<"\n">>

RECURSIVE YamlSources(_)
YamlSources(list) ==
    IF list = <<>> THEN <<>> ELSE YamlSource(Head(list)) \o YamlSources(Tail(list))

YamlDocument(doc) ==
    <<"    - description: ">> \o YamlScalar(doc.description) \o <<"\n">>
        \o <<"      outputPath: ">> \o YamlScalar(doc.outputPath) \o <<"\n">>
        \o (IF doc.sources = <<>> THEN <<"      sources: []", "\n">>
            ELSE <<"      sources:", "\n">> \o YamlSources(doc.sources))

RECURSIVE YamlDocuments(_)
YamlDocuments(list) ==
    IF list = <<>> THEN <<>>
    ELSE YamlDocument(Head(list)) \o YamlDocuments(Tail(list))

\* yaml.Marshal of a Config (gopkg.in/yaml.v3, which is not part of the
\* repository): the block-style document, the fields in the order of the structs.
Marshal(c) ==
    <<"projectPath: ">> \o YamlScalar(c.projectPath) \o <<"\n">>
        \o (IF c.documents = <<>> THEN <<"documents: []", "\n">>
            ELSE <<"documents:", "\n">> \o YamlDocuments(c.documents))

ensureFailedCfg(dir, r, st) ==
    IF st.err = "" /\ ~st.isDir
    THEN [fs |-> r.fs, err |-> Err("path exists and is not a directory", dir)]
    ELSE r

ensureMadeCfg(dir, r) ==
    IF r.err = nil THEN r ELSE ensureFailedCfg(dir, r, Stat(r.fs, Abs(dir)))

\* ensureDir of the config package.
ensureDirCfg(f, dir) ==
    IF dir = <<>> \/ dir = <<".">> THEN [fs |-> f, err |-> nil]
    ELSE ensureMadeCfg(dir, MkdirAll(f, Abs(dir)))

saveIn(left, path, data, r) ==
    IF r.err # nil THEN [fs |-> r.fs, left |-> left, err |-> r.err]
    ELSE WriteFile(r.fs, left, path, data)

\* cfg.Save.
Save(f, left, path, c) == saveIn(left, path, Marshal(c), ensureDirCfg(f, Dir(path)))

statExistsNever(st) == FALSE

\* err == nil after os.Stat.
statExists(st) == st.err = ""

\* runInit after os.Stat has answered st.
initStat(f, left, path, st) ==
    IF statExists(st)
    THEN [fs |-> f, left |-> left, err |-> Err("config already exists", path)]
    ELSE IF ~IsNotExist(st.err)
         THEN [fs |-> f, left |-> left,
               err |-> Wrap("cannot stat", path, Err(st.err, <<>>))]
    ELSE Save(f, left, path, Default)

initAt(f, left, path) == initStat(f, left, path, Stat(f, Abs(path)))

\* The path runInit works on.
initPath(path) == IF path = <<>> THEN defaultConfigPath ELSE path

\* runInit.
runInit(f, left, path) == initAt(f, left, initPath(path))

(***************************************************************************)
(* The filesystems and arguments the programs are run on                   *)
(***************************************************************************)

\* Longest paths argument of renderTree that is explored.
MaxPaths == 3

\* Longest sourcePaths list collectFiles is called with.
MaxDirs == 2

SeqsUpTo(S, n) == UNION {[1..k -> S] : k \in 0..n}

\* The path of a project-relative name.
InCwd(rel) == Cwd \o <<Separator>> \o rel

pS == InCwd(<<"s">>)

pA == InCwd(<<"s", "/", "a", ".", "g">>)

pV == InCwd(<<"s", "/", "v">>)

pB == InCwd(<<"s", "/", "v", "/", "b", ".", "g">>)

pT == InCwd(<<"t", ".", "m", "d">>)

\* The project with everything in it: s/a.g, s/v/b.g and t.md.
FullFs ==
    (Cwd :> DirEntry) @@ (pS :> DirEntry) @@ (pA :> FileEntry(<<"x", "\n">>)) @@
    (pV :> DirEntry) @@ (pB :> FileEntry(<<"y">>)) @@ (pT :> FileEntry(<<>>))

\* The project with a regular file where the directory s would be.
FlatFs == (Cwd :> DirEntry) @@ (pS :> FileEntry(<<"z">>))

\* Every project that holds a part of FullFs, the project whose s is a regular
\* file, and the full project with one path answering with an I/O error.
FsPool ==
    {[p \in D |-> FullFs[p]] :
        D \in {E \in SUBSET DOMAIN FullFs :
                  Cwd \in E /\ \A p \in E \ {Cwd} : Dir(p) \in E}}
    \cup {FlatFs}
    \cup {[FullFs EXCEPT ![x[1]].fault = x[2]] :
            x \in {<<pS, "stat">>, <<pS, "walk">>, <<pV, "walk">>, <<pA, "read">>}}

\* The sourcePaths entries: a directory, a subdirectory of it given as an
\* absolute path, a glob, a missing path, a regular file, a malformed glob.
SourcePathPool ==
    { <<"s">>,
      pV,
      <<"s", "/", "*">>,
      <<"x">>,
      <<"t", ".", "m", "d">>,
      <<"[">> }

\* The filePattern values: empty, one pattern, commas and blanks only, two
\* patterns with blanks around them, a malformed pattern.
FilePatternPool ==
    { <<>>,
      <<"*", ".", "g">>,
      <<" ", ",", " ">>,
      <<" ", "*", ".", "g", ",", " ", "*", ".", "m", "d", " ">>,
      <<"[">> }

\* The relative paths renderTree is called with: files below two directory
\* levels, a path that is a directory prefix of others, a path written uncleaned.
TreePathPool ==
    { <<"s", "/", "a", ".", "g">>,
      <<"s", "/", "v", "/", "b", ".", "g">>,
      <<"s", "/", "c", ".", "m">>,
      <<"s">>,
      <<"s", "/", "v">>,
      <<"t", ".", "g">>,
      <<".", "/", "s", "/", "/", "a", ".", "g">> }

\* Most documents of a configuration Generate is run on.
MaxDocs == 2

\* Most runInit calls of a run of init.
MaxInits == 3

\* The project with nothing in it.
EmptyFs == (Cwd :> DirEntry)

\* The projects Generate and init are run on.
GenFsPool ==
    {FullFs, FlatFs, EmptyFs}
    \cup {[FullFs EXCEPT ![x[1]].fault = x[2]] :
            x \in {<<pS, "stat">>, <<pV, "walk">>, <<pA, "read">>}}

TypeTree == <<"t", "r", "e", "e">>

TypeFile == <<"f", "i", "l", "e">>

\* The sources of the configurations (cfg.Source): a tree of s with an
\* excludePaths entry, the files of s and t.md with a missing entry between them,
\* a file source whose pattern matches nothing, a tree source of a missing path,
\* a source of an unknown type, a source with a malformed glob entry, a source
\* with a malformed filePattern.
srcTree ==
    [type |-> TypeTree,
     sourcePaths |-> << <<"s">> >>,
     excludePaths |-> << <<"s", "/", "v">> >>,
     filePattern |-> <<"*", ".", "g">>]

srcFile ==
    [type |-> <<"F", "I", "L", "E">>,
     sourcePaths |-> << <<"s">>, <<"x">>, <<"t", ".", "m", "d">> >>,
     excludePaths |-> <<>>,
     filePattern |-> <<>>]

srcFileNone ==
    [type |-> TypeFile,
     sourcePaths |-> << <<"s">> >>,
     excludePaths |-> << <<"s">> >>,
     filePattern |-> <<"*", ".", "q">>]

srcTreeMissing ==
    [type |-> <<"T", "r", "e", "e">>,
     sourcePaths |-> << <<"x">> >>,
     excludePaths |-> <<>>,
     filePattern |-> <<>>]

srcOther ==
    [type |-> <<"d", "i", "r">>,
     sourcePaths |-> << <<"s">> >>,
     excludePaths |-> <<>>,
     filePattern |-> <<>>]

srcGlobBad ==
    [type |-> TypeTree,
     sourcePaths |-> << <<"s", "/", "[">> >>,
     excludePaths |-> <<>>,
     filePattern |-> <<>>]

srcPatBad ==
    [type |-> TypeFile,
     sourcePaths |-> << <<"s">> >>,
     excludePaths |-> <<>>,
     filePattern |-> <<"[">>]

OutTop == <<"o", ".", "m", "d">>

OutInS == <<"s", "/", "o", ".", "m", "d">>

\* The documents of the configurations (cfg.Document); the last has no
\* description, no sources and no outputPath.
DocPool ==
    { [description |-> <<"T">>, outputPath |-> OutInS, sources |-> <<srcTree, srcFile>>],
      [description |-> <<>>, outputPath |-> OutTop,
       sources |-> <<srcFileNone, srcTreeMissing>>],
      [description |-> <<>>, outputPath |-> OutTop, sources |-> <<srcOther>>],
      [description |-> <<>>, outputPath |-> OutInS, sources |-> <<srcGlobBad>>],
      [description |-> <<>>, outputPath |-> OutTop, sources |-> <<srcPatBad>>],
      [description |-> <<>>, outputPath |-> <<>>, sources |-> <<>>] }

\* The -config values init is run with.
ConfigPathPool ==
    { <<>>,
      defaultConfigPath,
      <<"s", "/", "c", ".", "y">>,
      <<"t", ".", "m", "d">>,
      <<"s">> }

\* What a user's edit leaves in a configuration file.
EditedData == <<"e">>

\* No filesystem: renderTree reads none.
NoFs == <<>>

TreeIdle ==
    /\ treePaths = <<>>
    /\ treeIdx = 0
    /\ troot = emptyTree
    /\ treeOut = <<>>

CollectIdle ==
    /\ cDirs = <<>>
    /\ cPattern = <<>>
    /\ starts = <<>>
    /\ startIdx = 0
    /\ seen = {}
    /\ cOut = <<>>
    /\ cErr = nil

GenIdle ==
    /\ gDocs = <<>>
    /\ docIdx = 0
    /\ srcIdx = 0
    /\ b = <<>>
    /\ gErr = nil
    /\ began = 0
    /\ wlog = <<>>
    /\ gStart = <<>>

InitIdle ==
    /\ iPath = <<>>
    /\ iErr = nil
    /\ iCalls = 0
    /\ created = {}

(***************************************************************************)
(* renderTree as a program: one step per inserted path, then the rendering *)
(***************************************************************************)

InitTree ==
    /\ mode = "tree"
    /\ pc = "insert"
    /\ fs = NoFs
    /\ treePaths \in SeqsUpTo(TreePathPool, MaxPaths)
    /\ treeIdx = 0
    /\ troot = emptyTree
    /\ treeOut = <<>>
    /\ diskLeft = 0
    /\ CollectIdle
    /\ GenIdle
    /\ InitIdle

\* One iteration of renderTree's loop over paths.
TreeInsert ==
    /\ mode = "tree" /\ pc = "insert"
    /\ treeIdx < Len(treePaths)
    /\ troot' = insertPath(troot, treePaths[treeIdx + 1])
    /\ treeIdx' = treeIdx + 1
    /\ UNCHANGED <<fs, mode, pc, diskLeft, treePaths, treeOut, collectVars, genVars, initVars>>

\* The rest of renderTree: the top-level entries are rendered and returned.
TreeRender ==
    /\ mode = "tree" /\ pc = "insert"
    /\ treeIdx = Len(treePaths)
    /\ treeOut' = renderRoot(troot)
    /\ pc' = "done"
    /\ UNCHANGED <<fs, mode, diskLeft, treePaths, treeIdx, troot, collectVars, genVars, initVars>>

NextTree == TreeInsert \/ TreeRender

SpecTree == InitTree /\ [][NextTree]_vars

(***************************************************************************)
(* collectFiles as a program, called with the project root ".": the        *)
(* expansion, one step per start point, then the sorted result             *)
(***************************************************************************)

InitCollect ==
    /\ mode = "collect"
    /\ pc = "expand"
    /\ fs \in FsPool
    /\ cDirs \in SeqsUpTo(SourcePathPool, MaxDirs)
    /\ cPattern \in FilePatternPool
    /\ starts = <<>>
    /\ startIdx = 0
    /\ seen = {}
    /\ cOut = <<>>
    /\ cErr = nil
    /\ diskLeft = 0
    /\ TreeIdle
    /\ GenIdle
    /\ InitIdle

\* collectFiles up to its loop: the root is resolved, the start points expanded.
CollectExpand ==
    /\ mode = "collect" /\ pc = "expand"
    /\ \E ex \in {expandSourceStarts(fs, Abs(ProjectRoot), cDirs)} :
           /\ starts' = ex.starts
           /\ cErr' = ex.err
           /\ pc' = IF ex.err # nil THEN "done" ELSE "visit"
    /\ UNCHANGED <<fs, mode, diskLeft, cDirs, cPattern, startIdx, seen, cOut, treeVars,
                   genVars, initVars>>

\* One iteration of the loop over starts.
CollectVisit ==
    /\ mode = "collect" /\ pc = "visit"
    /\ startIdx < Len(starts)
    /\ \E v \in {visitStart(fs, Abs(ProjectRoot), splitPatterns(cPattern), seen,
                            starts[startIdx + 1])} :
           /\ seen' = v.seen
           /\ cErr' = v.err
           /\ pc' = IF v.err # nil THEN "done" ELSE "visit"
    /\ startIdx' = startIdx + 1
    /\ UNCHANGED <<fs, mode, diskLeft, cDirs, cPattern, starts, cOut, treeVars,
                   genVars, initVars>>

\* The end of collectFiles: the keys of seen, in the order the range over the map
\* gives them, are sorted and returned.
CollectSort ==
    /\ mode = "collect" /\ pc = "visit"
    /\ startIdx = Len(starts)
    /\ \E keys \in KeyOrders(seen) : cOut' = sortOut(keys)
    /\ pc' = "done"
    /\ UNCHANGED <<fs, mode, diskLeft, cDirs, cPattern, starts, startIdx, seen, cErr,
                   treeVars, genVars, initVars>>

NextCollect == CollectExpand \/ CollectVisit \/ CollectSort

SpecCollect == InitCollect /\ [][NextCollect]_vars

(***************************************************************************)
(* Generate as a program: one step per document begun, per source, per     *)
(* ensureDir and per os.WriteFile, and the return                          *)
(***************************************************************************)

InitGen ==
    /\ mode = "generate"
    /\ pc = "doc"
    /\ fs \in GenFsPool
    /\ gDocs \in SeqsUpTo(DocPool, MaxDocs)
    /\ diskLeft \in 0..MaxDocs
    /\ docIdx = 0
    /\ srcIdx = 0
    /\ b = <<>>
    /\ gErr = nil
    /\ began = 0
    /\ wlog = <<>>
    /\ gStart = Start(fs, diskLeft)
    /\ TreeIdle
    /\ CollectIdle
    /\ InitIdle

\* Generate's state.
G ==
    [fs |-> fs, pc |-> pc, docIdx |-> docIdx, srcIdx |-> srcIdx, b |-> b,
     err |-> gErr, diskLeft |-> diskLeft, began |-> began, wlog |-> wlog]

\* Generate's state becomes n.
Becomes(n) ==
    /\ fs' = n.fs
    /\ pc' = n.pc
    /\ docIdx' = n.docIdx
    /\ srcIdx' = n.srcIdx
    /\ b' = n.b
    /\ gErr' = n.err
    /\ diskLeft' = n.diskLeft
    /\ began' = n.began
    /\ wlog' = n.wlog
    /\ UNCHANGED <<mode, gDocs, gStart, treeVars, collectVars, initVars>>

GenBegin ==
    /\ mode = "generate" /\ pc = "doc"
    /\ docIdx < Len(gDocs)
    /\ \E n \in {genBegin(gDocs, G)} : Becomes(n)

GenSource ==
    /\ mode = "generate" /\ pc = "source"
    /\ \E n \in {genSource(gDocs, G)} : Becomes(n)

GenEnsure ==
    /\ mode = "generate" /\ pc = "ensure"
    /\ \E n \in {genEnsure(gDocs, G)} : Becomes(n)

GenWrite ==
    /\ mode = "generate" /\ pc = "write"
    /\ \E n \in {genWrite(gDocs, G)} : Becomes(n)

GenReturn ==
    /\ mode = "generate" /\ pc = "doc"
    /\ docIdx = Len(gDocs)
    /\ \E n \in {genReturn(G)} : Becomes(n)

NextGen == GenBegin \/ GenSource \/ GenEnsure \/ GenWrite \/ GenReturn

SpecGen == InitGen /\ [][NextGen]_vars

(***************************************************************************)
(* init as a program: runInit calls, one after another, and between them   *)
(* the user's edits of a configuration file that init has created          *)
(***************************************************************************)

InitInit ==
    /\ mode = "init"
    /\ pc = "start"
    /\ fs \in GenFsPool
    /\ diskLeft \in 0..MaxInits
    /\ iPath = <<>>
    /\ iErr = nil
    /\ iCalls = 0
    /\ created = {}
    /\ TreeIdle
    /\ CollectIdle
    /\ GenIdle

\* The init command: runInit(configPath).
RunInit ==
    /\ mode = "init"
    /\ iCalls < MaxInits
    /\ \E path \in ConfigPathPool :
           \E r \in {runInit(fs, diskLeft, path)} :
               /\ fs' = r.fs
               /\ diskLeft' = r.left
               /\ iErr' = r.err
               /\ iPath' = path
               /\ created' = IF r.err = nil THEN created \cup {Abs(initPath(path))}
                             ELSE created
    /\ iCalls' = iCalls + 1
    /\ pc' = "returned"
    /\ UNCHANGED <<mode, treeVars, collectVars, genVars>>

\* The user edits a configuration file that init has created.
EditConfig ==
    /\ mode = "init"
    /\ \E p \in created :
           /\ fs[p].data # EditedData
           /\ fs' = [fs EXCEPT ![p].data = EditedData]
    /\ pc' = "edited"
    /\ UNCHANGED <<mode, diskLeft, iPath, iErr, iCalls, created, treeVars,
                   collectVars, genVars>>

NextInit == RunInit \/ EditConfig

SpecInit == InitInit /\ [][NextInit]_vars

(***************************************************************************)
(* Reading a rendered tree back: its lines, and of each line the depth,    *)
(* the name and whether it is a directory line.                            *)
(***************************************************************************)

OutLines(s) ==
    LET parts == Split(s, "\n") IN SubSeq(parts, 1, Len(parts) - 1)

BranchPos(line) ==
    CHOOSE i \in 1..Len(line) :
        /\ line[i] \in {"U251C", "U2514"}
        /\ \A j \in 1..(i - 1) : line[j] \notin {"U251C", "U2514"}

LineDepth(line) == (BranchPos(line) - 1) \div 4

LineText(line) == SubSeq(line, BranchPos(line) + 4, Len(line))

LineIsDir(line) == LineText(line)[Len(LineText(line))] = "/"

LineName(line) ==
    IF LineIsDir(line) THEN SubSeq(LineText(line), 1, Len(LineText(line)) - 1)
    ELSE LineText(line)

\* Lines i < j of ls are lines of two children of one node.
Siblings(ls, i, j) ==
    /\ i < j
    /\ LineDepth(ls[i]) = LineDepth(ls[j])
    /\ \A k \in (i + 1)..(j - 1) : LineDepth(ls[k]) >= LineDepth(ls[i])

\* The regular files a walk from start reaches: start itself, or what lies below.
ReachedFrom(f, start) ==
    {p \in DOMAIN f : ~f[p].isDir /\ (p = start \/ start \in Ancestors(p))}

CollectDone == mode = "collect" /\ pc = "done" /\ cErr = nil

\* C1: the list collectFiles returns is strictly ascending in Go's string order,
\* so no path occurs in it twice.
C1_StrictlyAscending ==
    CollectDone => \A i \in 1..(Len(cOut) - 1) : StrLess(cOut[i], cOut[i + 1])

\* C1 witness: collectFiles has returned several paths, one of them a file that
\* two different start points reach.
C1_Witness ==
    /\ CollectDone
    /\ Len(cOut) >= 2
    /\ \E i, j \in 1..Len(starts) :
           /\ i < j /\ starts[i] # starts[j]
           /\ \E p \in ReachedFrom(fs, starts[i]) \cap ReachedFrom(fs, starts[j]) :
                  ToSlash(Rel(Cwd, p)) \in Range(cOut)

\* The pattern list as the claim words it: the entries between the commas of
\* filePattern, trimmed, without the empty ones.
C9_Patterns ==
    {TrimSpace(e) : e \in Range(Split(cPattern, ","))} \ {<<>>}

\* C9: a regular file reached from a start point is in the output exactly if the
\* pattern list is empty or its base name matches a pattern of the list; with a
\* filePattern of commas and blanks every reached file is in the output; and
\* every path of the output is a regular file, never a directory.
C9_IncludedIffMatches ==
    CollectDone =>
        /\ \A k \in 1..Len(starts) : \A p \in ReachedFrom(fs, starts[k]) :
               ToSlash(Rel(Cwd, p)) \in Range(cOut)
                   <=> \/ C9_Patterns = {}
                       \/ \E q \in C9_Patterns : Match(q, Base(p)).ok
        /\ (\A i \in 1..Len(cPattern) : cPattern[i] \in {",", " "}) =>
               \A k \in 1..Len(starts) : \A p \in ReachedFrom(fs, starts[k]) :
                   ToSlash(Rel(Cwd, p)) \in Range(cOut)
        /\ \A r \in Range(cOut) :
               InCwd(r) \in DOMAIN fs /\ ~fs[InCwd(r)].isDir

\* C9 witness: with a filePattern of commas and blanks, a walk has passed a
\* directory below the start point and collected the files on both levels.
C9_Witness ==
    /\ CollectDone
    /\ cPattern # <<>> /\ \A i \in 1..Len(cPattern) : cPattern[i] \in {",", " "}
    /\ \E k \in 1..Len(starts) :
           /\ starts[k] = pS
           /\ {pA, pB} \subseteq ReachedFrom(fs, starts[k])
           /\ {ToSlash(Rel(Cwd, pA)), ToSlash(Rel(Cwd, pB))} \subseteq Range(cOut)

\* C2: renderTree is order-independent: every ordering of the paths it was
\* called with renders to the string it returned.
C2_OrderIndependent ==
    (mode = "tree" /\ pc = "done") =>
        \A q \in KeyOrders(1..Len(treePaths)) :
            renderTree([i \in 1..Len(treePaths) |-> treePaths[q[i]]]) = treeOut

\* C2 witness: renderTree has returned for three distinct paths, one of them a
\* directory prefix of a path inserted after it.
C2_Witness ==
    /\ mode = "tree" /\ pc = "done"
    /\ Len(treePaths) = 3
    /\ Cardinality({treePaths[i] : i \in 1..3}) = 3
    /\ \E i, j \in 1..3 :
           /\ i < j
           /\ Len(splitPath(treePaths[i])) < Len(splitPath(treePaths[j]))
           /\ SubSeq(splitPath(treePaths[j]), 1, Len(splitPath(treePaths[i])))
                  = splitPath(treePaths[i])

\* C3: in the returned tree, of two lines of children of one node the earlier is
\* never a file when the later is a directory, and two of the same kind are in
\* strictly ascending order of name.
C3_DirsFirstSorted ==
    (mode = "tree" /\ pc = "done") =>
        LET ls == OutLines(treeOut)
        IN  \A i, j \in 1..Len(ls) :
                Siblings(ls, i, j) =>
                    /\ LineIsDir(ls[j]) => LineIsDir(ls[i])
                    /\ (LineIsDir(ls[i]) = LineIsDir(ls[j]))
                           => StrLess(LineName(ls[i]), LineName(ls[j]))

\* C3 witness: a directory line comes before the line of a sibling file whose
\* name sorts before the directory's (b/ before a.go in the spec's scenario).
C3_Witness ==
    /\ mode = "tree" /\ pc = "done"
    /\ LET ls == OutLines(treeOut)
       IN  \E i, j \in 1..Len(ls) :
               /\ Siblings(ls, i, j)
               /\ LineIsDir(ls[i]) /\ ~LineIsDir(ls[j])
               /\ StrLess(LineName(ls[j]), LineName(ls[i]))
               /\ LineDepth(ls[i]) > 0

(***************************************************************************)
(* Generate and init: what the claims speak of                             *)
(***************************************************************************)

GenDone == mode = "generate" /\ pc = "done"

\* The file a document's outputPath names.
OutFile(doc) == Abs(doc.outputPath)

\* The document and the source Generate is at.
CurDoc == gDocs[docIdx + 1]

CurSrc == CurDoc.sources[srcIdx + 1]

KnownType(src) == ToLower(src.type) \in {TypeTree, TypeFile}

\* The no-match notice of a source of type tree or file.
NoticeOf(src) ==
    IF ToLower(src.type) = TypeTree THEN noMatchTree(src) ELSE noMatchFile(src)

RECURSIVE NoticesOf(_)
NoticesOf(sources) ==
    IF sources = <<>> THEN <<>>
    ELSE NoticeOf(Head(sources)) \o NoticesOf(Tail(sources))

\* The path a literal sourcePaths entry names.
EntryPath(e) == IF IsAbs(e) THEN Clean(e) ELSE JoinPath(Cwd, e)

\* A literal sourcePaths entry at which nothing exists in f: os.Stat answers
\* that the file does not exist.
Missing(f, e) == ~hasGlob(e) /\ Stat(f, EntryPath(e)).err = "ENOENT"

AllMissing(f, doc) ==
    \A i \in 1..Len(doc.sources) :
        /\ KnownType(doc.sources[i])
        /\ \A k \in 1..Len(doc.sources[i].sourcePaths) :
               Missing(f, doc.sources[i].sourcePaths[k])

\* The part of Generate an error comes from.
FromSources(e) ==
    e # nil /\ e[1].op \in {"collect files for", "read", "unknown source type"}

\* Generate has returned the error of document docIdx + 1: the documents before
\* it, and no other, have been written, one after another, and it is the last
\* one begun.
C4_StoppedAtFailure ==
    /\ docIdx < Len(gDocs)
    /\ began = docIdx + 1
    /\ Len(wlog) = docIdx
    /\ \A j \in 1..docIdx :
           /\ wlog[j].path = gDocs[j].outputPath
           /\ OutFile(gDocs[j]) \in DOMAIN fs
           /\ ~fs[OutFile(gDocs[j])].isDir

\* C4 as stated: when Generate returns an error, an error stops it at once, the
\* documents before the failing one have been written in order and no later one
\* has been begun, and the output file of every document before the failing one
\* holds that document's rendered content.
C4_PriorOutputsKeepContent ==
    mode = "generate" =>
        /\ gErr # nil => pc = "done"
        /\ (pc = "done" /\ gErr # nil) =>
               /\ C4_StoppedAtFailure
               /\ \A j \in 1..docIdx :
                      fs[OutFile(gDocs[j])].data = wlog[j].data

\* C4, amended: as above, but the output file of a document before the failing
\* one holds that document's rendered content if no later document, up to and
\* including the failing one, has the same output file.
C4_PriorOutputsUnlessRewritten ==
    mode = "generate" =>
        /\ gErr # nil => pc = "done"
        /\ (pc = "done" /\ gErr # nil) =>
               /\ C4_StoppedAtFailure
               /\ \A j \in 1..docIdx :
                      (\A i \in (j + 1)..(docIdx + 1) :
                           OutFile(gDocs[i]) # OutFile(gDocs[j]))
                          => fs[OutFile(gDocs[j])].data = wlog[j].data

\* C4 witness: the write of the second document has failed, and the output file
\* of the first, a different file, holds the first document's content.
C4_Witness ==
    /\ GenDone
    /\ gErr # nil /\ gErr[1].op = "write output"
    /\ docIdx = 1
    /\ OutFile(gDocs[1]) # OutFile(gDocs[2])
    /\ wlog[1].data # <<>>
    /\ fs[OutFile(gDocs[1])].data = wlog[1].data

\* The step of Generate on a source of type tree or file for which collectFiles
\* returns no file and no error.
C5_NoFilesStep ==
    /\ mode = "generate" /\ pc = "source"
    /\ KnownType(CurSrc)
    /\ SourceFiles(fs, CurSrc) = [files |-> <<>>, err |-> nil]

\* The source without the sourcePaths entries at which nothing exists.
C5_WithoutMissing(f, src) ==
    [src EXCEPT !.sourcePaths = SelectSeq(@, LAMBDA e : ~Missing(f, e))]

C6_UnknownStep ==
    /\ mode = "generate" /\ pc = "source"
    /\ ~KnownType(CurSrc)

\* C6 as stated: on a source of unknown type Generate returns the "unknown
\* source type" error naming the type, whatever the source's paths and pattern
\* and the filesystem are, and writes nothing for the source.
C6_AlwaysUnknownType ==
    [][C6_UnknownStep =>
           /\ pc' = "done"
           /\ gErr' = Err("unknown source type", CurSrc.type)
           /\ b' = b]_vars

\* C6, amended: on a source of unknown type Generate returns at once and writes
\* nothing for the source; the error is the "unknown source type" error naming
\* the type if the collection for the source succeeds, and the collection's
\* error, wrapped with the type, if it fails.
C6_UnknownTypeAfterCollect ==
    [][C6_UnknownStep =>
           /\ pc' = "done"
           /\ gErr' = IF SourceFiles(fs, CurSrc).err = nil
                      THEN Err("unknown source type", CurSrc.type)
                      ELSE Wrap("collect files for", CurSrc.type,
                                SourceFiles(fs, CurSrc).err)
           /\ b' = b /\ fs' = fs /\ wlog' = wlog]_vars

\* C6 witness: Generate has returned the "unknown source type" error for a
\* source whose paths hold files.
C6_Witness ==
    /\ GenDone
    /\ docIdx < Len(gDocs)
    /\ ~KnownType(CurSrc)
    /\ gErr = Err("unknown source type", CurSrc.type)
    /\ SourceFiles(fs, CurSrc).files # <<>>

\* An error is raised while the source is processed on f by the glob expansion,
\* by os.Stat of a start point (other than not-found), by the listing of a
\* directory of the walk, or by the reading of a collected file.
C7_IOErrorRaised(f, src) ==
    LET ex == expandSourceStarts(f, Abs(ProjectRoot), src.sourcePaths)
        c == SourceFiles(f, src)
    IN  \/ ex.err # nil
        \/ \E k \in 1..Len(ex.starts) :
               \/ Stat(f, ex.starts[k]).err \notin {"", "ENOENT"}
               \/ \E d \in DOMAIN f :
                      /\ f[d].isDir /\ f[d].fault = "walk"
                      /\ d = ex.starts[k] \/ ex.starts[k] \in Ancestors(d)
        \/ /\ ToLower(src.type) = TypeFile
           /\ c.err = nil
           /\ \E r \in Range(c.files) : ReadFile(f, JoinPath(ProjectRoot, r)).err # nil

\* An error is raised while the source is processed on f by the match of a
\* reached file's name against a pattern of filePattern.
C7_MatchErrorRaised(f, src) ==
    LET ex == expandSourceStarts(f, Abs(ProjectRoot), src.sourcePaths)
        pats == splitPatterns(src.filePattern)
    IN  \E k \in 1..Len(ex.starts) :
            \E p \in ReachedFrom(f, ex.starts[k]) : \E i \in 1..Len(pats) :
                /\ Match(pats[i], Base(p)).err
                /\ \A j \in 1..(i - 1) : ~Match(pats[j], Base(p)).ok

\* C7 as stated: every error other than not-found that is raised while a source
\* is processed makes Generate return an error at that source.
C7_OtherErrorsAbort ==
    [][(/\ mode = "generate" /\ pc = "source"
        /\ C7_IOErrorRaised(fs, CurSrc) \/ C7_MatchErrorRaised(fs, CurSrc))
           => (pc' = "done" /\ gErr' # nil)]_vars

\* What holds of C7: every such error but the one of matching against a
\* malformed pattern makes Generate return an error at that source.
C7_IOErrorsAbort ==
    [][(mode = "generate" /\ pc = "source" /\ C7_IOErrorRaised(fs, CurSrc))
           => (pc' = "done" /\ gErr' # nil)]_vars

\* The failing input of C7 is reached: a file source with the pattern "[" over a
\* directory that holds files, rendered as a no-match notice without an error.
C7_Swallowed ==
    /\ mode = "generate" /\ pc = "ensure"
    /\ gErr = nil
    /\ Len(CurDoc.sources) = 1
    /\ C7_MatchErrorRaised(fs, CurDoc.sources[Len(CurDoc.sources)])
    /\ ~C7_IOErrorRaised(fs, CurDoc.sources[Len(CurDoc.sources)])
    /\ b = noMatchFile(CurDoc.sources[Len(CurDoc.sources)])

\* C8: a runInit on a path at which an earlier runInit has created the
\* configuration returns the "config already exists" error and changes nothing;
\* a runInit on a path at which anything exists returns an error and changes
\* nothing, so that what init writes it writes where nothing was, and there it
\* writes the default configuration.
C8_InitNeverOverwrites ==
    [][(mode = "init" /\ iCalls' = iCalls + 1) =>
           /\ Abs(initPath(iPath')) \in created =>
                  /\ iErr' = Err("config already exists", initPath(iPath'))
                  /\ fs' = fs
           /\ Abs(initPath(iPath')) \in DOMAIN fs => (iErr' # nil /\ fs' = fs)
           /\ iErr' = nil =>
                  /\ Abs(initPath(iPath')) \notin DOMAIN fs
                  /\ fs'[Abs(initPath(iPath'))].data = Marshal(Default)]_vars

\* C8 witness: init has created the configuration, the user has edited it, and a
\* later init on the same path has failed and left the edited file as it was.
C8_Witness ==
    /\ mode = "init" /\ pc = "returned"
    /\ iCalls >= 2
    /\ Abs(initPath(iPath)) \in created
    /\ iErr = Err("config already exists", initPath(iPath))
    /\ fs[Abs(initPath(iPath))].data = EditedData

\* The excludePaths lists a configuration's sources are given in its variants.
ExcludePool == {<<>>, << <<"s">> >>, << <<"s", "/", "v">>, <<"x">> >>}

\* The configuration with every excludePaths list replaced by ex.
WithExcludes(docs, ex) ==
    [j \in 1..Len(docs) |->
        [docs[j] EXCEPT !.sources =
            [i \in 1..Len(docs[j].sources) |->
                [docs[j].sources[i] EXCEPT !.excludePaths = ex]]]]

LinesAbove(ls, i, k) == {j \in 1..(i - 1) : LineDepth(ls[j]) = k}

\* The name on the nearest line above line i at depth k, <<>> if there is none.
NameAbove(ls, i, k) ==
    IF LinesAbove(ls, i, k) = {} THEN <<>>
    ELSE LineName(ls[CHOOSE j \in LinesAbove(ls, i, k) :
                         \A m \in LinesAbove(ls, i, k) : m <= j])

\* The path line i stands for: the names on the nearest lines above it at each
\* smaller depth, then its own name.
LinePath(ls, i) ==
    [k \in 1..(LineDepth(ls[i]) + 1) |->
        IF k = LineDepth(ls[i]) + 1 THEN LineName(ls[i])
        ELSE NameAbove(ls, i, k - 1)]

\* x is a proper prefix of y.
ProperPrefix(x, y) == Len(x) < Len(y) /\ SubSeq(y, 1, Len(x)) = x

\* The distinct paths renderTree was called with, as their parts.
TreePathSet == {splitPath(treePaths[i]) : i \in 1..Len(treePaths)}

\* The distinct proper directory prefixes of those paths.
TreePrefixSet ==
    UNION {{SubSeq(p, 1, k) : k \in 1..(Len(p) - 1)} : p \in TreePathSet}

\* No path of the set is a proper directory prefix of another.
NoPathIsPrefix == TreePathSet \cap TreePrefixSet = {}

FileLines(ls) == {i \in 1..Len(ls) : ~LineIsDir(ls[i])}

DirLines(ls) == {i \in 1..Len(ls) : LineIsDir(ls[i])}

\* C11: for paths none of which is a proper directory prefix of another, the
\* returned tree has exactly one line for each distinct path, exactly one line
\* ending in "/" for each distinct proper directory prefix, no other line, and
\* the line of a directory comes before the lines of all its descendants.
C11_OneLinePerPath ==
    (mode = "tree" /\ pc = "done" /\ NoPathIsPrefix) =>
        LET ls == OutLines(treeOut)
        IN  /\ {LinePath(ls, i) : i \in FileLines(ls)} = TreePathSet
            /\ Cardinality(FileLines(ls)) = Cardinality(TreePathSet)
            /\ {LinePath(ls, i) : i \in DirLines(ls)} = TreePrefixSet
            /\ Cardinality(DirLines(ls)) = Cardinality(TreePrefixSet)
            /\ \A i \in DirLines(ls) : \A j \in 1..Len(ls) :
                   ProperPrefix(LinePath(ls, i), LinePath(ls, j)) => i < j
            /\ \A j \in 1..Len(ls) :
                   LineDepth(ls[j]) > 0 =>
                       /\ j > 1
                       /\ LineDepth(ls[j - 1]) >= LineDepth(ls[j]) - 1
                       /\ \E i \in DirLines(ls) :
                              /\ i < j
                              /\ LinePath(ls, i) = AllButLast(LinePath(ls, j))

\* C11 witness: renderTree has returned for three paths none of which is a prefix
\* of another, two of them one file written in two ways, one of them a file two
\* directories deep.
C11_Witness ==
    /\ mode = "tree" /\ pc = "done"
    /\ Len(treePaths) = 3
    /\ NoPathIsPrefix
    /\ \E i, j \in 1..3 :
           treePaths[i] # treePaths[j] /\ splitPath(treePaths[i]) = splitPath(treePaths[j])
    /\ \E i \in 1..3 : Len(splitPath(treePaths[i])) = 3
    /\ Cardinality(TreePrefixSet) = 2

====
